---------------------------- MODULE Spec2Model ----------------------------
(***************************************************************************)
(* A model of the xvc walker: ignore patterns (pattern.rs), the rule set   *)
(* and its match arbitration (ignore_rules.rs), the construction of the    *)
(* rule set from nested ignore files (lib.rs) and the parallel walk that   *)
(* drives it.                                                              *)
(*                                                                         *)
(* Strings are sequences of one-character strings, so that prefixes,      *)
(* suffixes and glob matching are computed and not assumed.  Paths are     *)
(* relative to the ignore root and carry no trailing slash; the root is    *)
(* the empty sequence.                                                     *)
(***************************************************************************)
EXTENDS Integers, Sequences, FiniteSets, TLC

(***************************************************************************)
(* String helpers (Rust str / Path methods used by the code).              *)
(***************************************************************************)
StartsWith(s, pre) ==
    /\ Len(s) >= Len(pre)
    /\ SubSeq(s, 1, Len(pre)) = pre

EndsWith(s, suf) ==
    /\ Len(s) >= Len(suf)
    /\ SubSeq(s, Len(s) - Len(suf) + 1, Len(s)) = suf

Contains(s, c) == \E i \in 1..Len(s) : s[i] = c

DropFirst(s) == SubSeq(s, 2, Len(s))

DropLast(s) == SubSeq(s, 1, Len(s) - 1)

IsSpace(c) == c \in {" ", "\t"}

\* str::trim_end
RECURSIVE TrimEnd(_)
TrimEnd(s) ==
    IF Len(s) > 0 /\ IsSpace(s[Len(s)]) THEN TrimEnd(DropLast(s)) ELSE s

\* str::trim_end_matches('/')
RECURSIVE TrimEndSlashes(_)
TrimEndSlashes(s) ==
    IF Len(s) > 0 /\ s[Len(s)] = "/" THEN TrimEndSlashes(DropLast(s)) ELSE s

\* index of the last "/" of s, 0 when there is none
LastSlash(s) ==
    LET idx == {i \in 1..Len(s) : s[i] = "/"}
    IN  IF idx = {} THEN 0 ELSE CHOOSE i \in idx : \A j \in idx : j <= i

\* Path::parent of a relative path that is not empty
Parent(p) ==
    IF LastSlash(p) = 0 THEN <<>> ELSE SubSeq(p, 1, LastSlash(p) - 1)

\* the final component of a path
FileName(p) == SubSeq(p, LastSlash(p) + 1, Len(p))

\* Path::join
Join(dir, name) == IF dir = <<>> THEN name ELSE dir \o <<"/">> \o name

\* Path::starts_with: a comparison of whole components
PathStartsWith(p, base) ==
    \/ base = <<>>
    \/ p = base
    \/ /\ Len(p) > Len(base)
       /\ SubSeq(p, 1, Len(base)) = base
       /\ p[Len(base) + 1] = "/"

\* p lies strictly inside directory d
StrictlyUnder(p, d) == PathStartsWith(p, d) /\ p # d

(***************************************************************************)
(* The glob matcher.  Its source (glob.rs) is not part of the files at     *)
(* hand; it is modelled from section 4.1 of the specification.             *)
(***************************************************************************)
\* the order of characters, for the ranges of a character class
CharOrder ==
    <<"\t", " ", "!", "#", "*", "-", ".", "/", "?", "[", "\\", "]", "^",
      "a", "b", "c", "d", "e", "f", "g", "i", "j", "o", "t", "x", "y", "z">>

CharCode(c) ==
    IF \E i \in 1..Len(CharOrder) : CharOrder[i] = c
    THEN CHOOSE i \in 1..Len(CharOrder) : CharOrder[i] = c
    ELSE 0

\* g[i] = "[": the index of the "]" closing the class, 0 when it is not closed
ClassEnd(g, i) ==
    LET first == IF i + 1 <= Len(g) /\ g[i + 1] \in {"!", "^"} THEN i + 2 ELSE i + 1
        idx == {k \in (first + 1)..Len(g) : g[k] = "]"}
    IN  IF idx = {} THEN 0 ELSE CHOOSE k \in idx : \A j \in idx : k <= j

\* whether character c is a member of the class g[i..ClassEnd(g, i)]
ClassHas(g, i, c) ==
    LET neg == g[i + 1] \in {"!", "^"}
        first == IF neg THEN i + 2 ELSE i + 1
        last == ClassEnd(g, i) - 1
        inRange(k) ==
            /\ k + 2 <= last
            /\ g[k + 1] = "-"
            /\ CharCode(g[k]) <= CharCode(c)
            /\ CharCode(c) <= CharCode(g[k + 2])
        member == \E k \in first..last : g[k] = c \/ inRange(k)
    IN  member # neg

\* g[i..i+1] = "**" standing as a whole path component
IsGlobstar(g, i) ==
    /\ i + 1 <= Len(g)
    /\ g[i] = "*"
    /\ g[i + 1] = "*"
    /\ (i = 1 \/ g[i - 1] = "/")
    /\ (i + 2 > Len(g) \/ g[i + 2] = "/")

\* whether g[i..] matches s[j..]
RECURSIVE GlobFrom(_, _, _, _)
GlobFrom(g, i, s, j) ==
    IF i > Len(g) THEN j > Len(s)
    ELSE IF IsGlobstar(g, i) THEN
        IF i + 2 > Len(g) THEN TRUE
        ELSE \/ GlobFrom(g, i + 3, s, j)
             \/ \E k \in j..Len(s) : s[k] = "/" /\ GlobFrom(g, i + 3, s, k + 1)
    ELSE IF g[i] = "*" THEN
        \/ GlobFrom(g, i + 1, s, j)
        \/ (j <= Len(s) /\ s[j] # "/" /\ GlobFrom(g, i, s, j + 1))
    ELSE IF g[i] = "?" THEN
        j <= Len(s) /\ s[j] # "/" /\ GlobFrom(g, i + 1, s, j + 1)
    ELSE IF g[i] = "[" /\ ClassEnd(g, i) # 0 THEN
        /\ j <= Len(s)
        /\ ClassHas(g, i, s[j])
        /\ GlobFrom(g, ClassEnd(g, i) + 1, s, j + 1)
    ELSE j <= Len(s) /\ s[j] = g[i] /\ GlobFrom(g, i + 1, s, j + 1)

glob_match(glob, path) == GlobFrom(glob, 1, path, 1)

(***************************************************************************)
(* pattern.rs                                                              *)
(***************************************************************************)
GlobalSource == [kind |-> "Global", path |-> <<>>, line |-> 0]

FileSource(p, n) == [kind |-> "File", path |-> p, line |-> n]

CommandLineSource(dir) == [kind |-> "CommandLine", path |-> dir, line |-> 0]

\* Source::dir_path.  The result is the directory; the File case of a source
\* path with no parent does not arise, a source file always has a name.
dir_path(source) ==
    IF source.kind = "File" THEN Parent(source.path) ELSE source.path

\* Pattern::new
NewPattern(source, original) ==
    LET dir0 == dir_path(source)
        current_dir == IF EndsWith(dir0, <<"/">>) THEN DropLast(dir0) ELSE dir0
        begin_exclamation == StartsWith(original, <<"!">>)
        line0 == IF StartsWith(original, <<"\\", "!">>) THEN DropFirst(original)
                 ELSE IF begin_exclamation THEN DropFirst(original)
                 ELSE original
        line1 == IF ~EndsWith(line0, <<"\\", " ">>) THEN TrimEnd(line0) ELSE line0
        end_slash == EndsWith(line1, <<"/">>)
        line2 == IF end_slash THEN DropLast(line1) ELSE line1
        begin_slash == StartsWith(line2, <<"/">>)
        line == IF begin_slash THEN DropFirst(line2) ELSE line2
        contains_slash == Contains(line, "/")
        path_kind == IF end_slash \/ EndsWith(line, <<"*", "*">>)
                     THEN "Directory" ELSE "Any"
        anchored == begin_slash \/ contains_slash
        glob0 == IF anchored
                 THEN (IF current_dir = <<>> THEN line
                       ELSE current_dir \o <<"/">> \o line)
                 ELSE (IF current_dir = <<>> THEN <<"*", "*", "/">> \o line
                       ELSE current_dir \o <<"/", "*", "*", "/">> \o line)
    IN  [glob |-> IF path_kind = "Directory" THEN glob0 \o <<"/">> ELSE glob0,
         original |-> original,
         source |-> source,
         effect |-> IF begin_exclamation THEN "Whitelist" ELSE "Ignore",
         relativity |-> IF anchored THEN <<"RelativeTo", current_dir>>
                        ELSE <<"Anywhere">>,
         path_kind |-> path_kind]

(***************************************************************************)
(* ignore_rules.rs: IgnoreRules::check.  A rule list is a sequence of      *)
(* patterns; a query is a path relative to the root and whether the file   *)
(* system holds a directory there (Path::is_dir).                          *)
(***************************************************************************)
pattern_has_wildcard(p) ==
    Contains(p, "*") \/ Contains(p, "?") \/ Contains(p, "[")

\* the string form of the query
PathStr(rel, isDir) ==
    IF rel = <<>> /\ isDir THEN <<"/">>
    ELSE IF isDir /\ ~EndsWith(rel, <<"/">>) THEN rel \o <<"/">>
    ELSE rel

\* SelfFileSkip with the ignore file's own path compared, not its directory
SelfFileSkipNoParent(pattern, rel) ==
    /\ pattern.source.kind = "File"
    /\ pattern.source.path = rel

\* the pattern comes from the ignore file of the queried directory itself
SelfFileSkip(pattern, rel) ==
    /\ pattern.source.kind = "File"
    /\ Parent(pattern.source.path) = rel

\* the match test that takes every pattern as matching
MatchesAlways(pattern, rel, isDir) == TRUE

\* the match test without the case of a glob ending in /*
MatchesNoStarCase(pattern, rel, isDir) ==
    IF isDir
    THEN \/ glob_match(pattern.glob, PathStr(rel, isDir))
         \/ glob_match(pattern.glob, TrimEndSlashes(PathStr(rel, isDir)))
    ELSE glob_match(pattern.glob, PathStr(rel, isDir))

\* the match test of one pattern
Matches(pattern, rel, isDir) ==
    LET path_str == PathStr(rel, isDir)
        glob == pattern.glob
        either == \/ glob_match(glob, path_str)
                  \/ glob_match(glob, TrimEndSlashes(path_str))
    IN  IF isDir
        THEN IF EndsWith(glob, <<"/", "*">>)
             THEN IF rel = SubSeq(glob, 1, Len(glob) - 2) THEN FALSE ELSE either
             ELSE either
        ELSE glob_match(glob, path_str)

\* a Directory pattern is dropped for a query that is no directory
KindFilter(pattern, isDir) == pattern.path_kind = "Directory" /\ ~isDir

\* One turn of the scan loop with every query taken as a directory and no
\* pattern dropped for its kind
ScanOneAsDirectory(pattern, i, rel, isDir, im, wm) ==
    IF SelfFileSkip(pattern, rel) THEN [im |-> im, wm |-> wm]
    ELSE IF \/ glob_match(pattern.glob, PathStr(rel, TRUE))
            \/ glob_match(pattern.glob, TrimEndSlashes(PathStr(rel, TRUE)))
    THEN IF pattern.effect = "Ignore" /\ im = 0 THEN [im |-> i, wm |-> wm]
         ELSE IF pattern.effect = "Whitelist" /\ wm = 0 THEN [im |-> im, wm |-> i]
         ELSE [im |-> im, wm |-> wm]
    ELSE [im |-> im, wm |-> wm]

\* One turn of the scan loop, on the pattern at index i.  im and wm are the
\* two slots: the index of the matching Ignore and Whitelist pattern found so
\* far, 0 for None.
ScanOne(pattern, i, rel, isDir, im, wm) ==
    IF SelfFileSkip(pattern, rel) THEN [im |-> im, wm |-> wm]
    ELSE IF Matches(pattern, rel, isDir) /\ ~KindFilter(pattern, isDir)
    THEN IF pattern.effect = "Ignore" /\ im = 0 THEN [im |-> i, wm |-> wm]
         ELSE IF pattern.effect = "Whitelist" /\ wm = 0 THEN [im |-> im, wm |-> i]
         ELSE [im |-> im, wm |-> wm]
    ELSE [im |-> im, wm |-> wm]

\* the scan loop exits: the list is exhausted or both slots are filled
ScanEnds(i, im, wm) == i = 0 \/ (im # 0 /\ wm # 0)

\* the scan from index i down to 1
RECURSIVE ScanFrom(_, _, _, _, _, _)
ScanFrom(L, i, rel, isDir, im, wm) ==
    IF ScanEnds(i, im, wm) THEN [im |-> im, wm |-> wm]
    ELSE LET s == ScanOne(L[i], i, rel, isDir, im, wm)
         IN  ScanFrom(L, i - 1, rel, isDir, s.im, s.wm)

Scan(L, rel, isDir) == ScanFrom(L, Len(L), rel, isDir, 0, 0)

\* Iterator::position(|p| p.original == original): the first such index
Position(L, original) ==
    CHOOSE i \in 1..Len(L) :
        /\ L[i].original = original
        /\ \A j \in 1..(i - 1) : L[j].original # original

\* the arbitration without the exception
SubtreeExceptionNever(im_pattern, wm_pattern) == FALSE

\* a whitelist with neither a slash nor a wildcard, from a directory strictly
\* inside the directory of the ignore pattern's source
SubtreeException(im_pattern, wm_pattern) ==
    LET isd == dir_path(im_pattern.source)
        wsd == dir_path(wm_pattern.source)
    IN  /\ PathStartsWith(wsd, isd)
        /\ wsd # isd
        /\ ~Contains(wm_pattern.original, "/")
        /\ ~pattern_has_wildcard(wm_pattern.original)

\* the comparison of the two insertion positions
WhitelistIsLater(L, im, wm) ==
    Position(L, L[wm].original) > Position(L, L[im].original)

\* the arbitration of the two slots
Arbitrate(L, im, wm) ==
    IF im = 0 /\ wm = 0 THEN "NoMatch"
    ELSE IF wm = 0 THEN "Ignore"
    ELSE IF im = 0 THEN "Whitelist"
    ELSE IF SubtreeException(L[im], L[wm]) THEN "Ignore"
    ELSE IF WhitelistIsLater(L, im, wm) THEN "Whitelist"
    ELSE "Ignore"

check(L, rel, isDir) ==
    LET s == Scan(L, rel, isDir) IN Arbitrate(L, s.im, s.wm)

\* IgnoreRules::merge_with as one step: other's patterns, drained in order,
\* are pushed onto self's list
merge_with(self_patterns, other_patterns) == self_patterns \o other_patterns

\* IgnoreRules::add_patterns: a temporary rule set holding the vector is merged
add_patterns(self_patterns, patterns) == merge_with(self_patterns, patterns)

\* a line holding only whitespace
IsBlank(line) == \A i \in 1..Len(line) : IsSpace(line[i])

\* content_to_patterns: content is the sequence of the lines of the text;
\* source is <<>> for None and <<path>> for Some(path), relative to the root
RECURSIVE ContentFrom(_, _, _)
ContentFrom(source, content, i) ==
    IF i > Len(content) THEN <<>>
    ELSE IF IsBlank(content[i]) \/ StartsWith(content[i], <<"#">>)
    THEN ContentFrom(source, content, i + 1)
    ELSE LET line == IF ~EndsWith(content[i], <<"\\", " ">>)
                     THEN TrimEnd(content[i]) ELSE content[i]
             src == IF source = <<>> THEN GlobalSource
                    ELSE FileSource(source[1], i)
         IN  <<NewPattern(src, line)>> \o ContentFrom(source, content, i + 1)

content_to_patterns(source, content) == ContentFrom(source, content, 1)

(***************************************************************************)
(* State.                                                                  *)
(***************************************************************************)
VARIABLES
    tree,       \* the file system under the root: dirs, files, ignore files
    rules,      \* the pattern list of the shared IgnoreRules
    query,      \* the last path given to check, with is_dir
    result,     \* what that check returned
    slots,      \* the two slots of that check's scan
    phase,      \* "build", "walk" or "done"; "check" under SpecCheck
    run,        \* "first" or "second" walk
    prebuilt,   \* the rule set handed to the walk comes from build_ignore_patterns
    dir_stack,  \* build_ignore_patterns: the stack of directories
    build_dir,  \* build_ignore_patterns: <<dir>> while dir's subdirectories wait
    queue,      \* walk: the directories waiting for a worker
    workers,    \* walk: each worker's directory, position and children left
    emitted,    \* walk: the paths sent on the output channel
    first_emitted, \* what the first walk sent
    base,       \* the length of the rule list when the current descent began
    early,      \* the children checked before their directory's ignore file was appended
    cells,      \* the pattern list behind each Arc<RwLock<Vec<Pattern>>>
    wlock,      \* per list: the thread holding the write lock, 0 for none
    rlock,      \* per list: the threads holding a read lock
    committed,  \* per list: the list as the last finished mutation left it
    threads,    \* per thread: the call it is in and its position
    inputs,     \* the lists of three rule sets before any merge
    worlds      \* per order of merging: the three lists and the merges done

checkVars == <<query, result, slots>>

walkVars == <<phase, run, prebuilt, dir_stack, build_dir, queue, workers,
              emitted, first_emitted, base, early>>

mergeVars == <<cells, wlock, rlock, committed, threads>>

orderVars == <<inputs, worlds>>

vars == <<tree, rules, query, result, slots, phase, run, prebuilt, dir_stack,
          build_dir, queue, workers, emitted, first_emitted, base, early,
          cells, wlock, rlock, committed, threads, inputs, worlds>>

IgnoreFilename == <<".", "g", "i", "t", "i", "g", "n", "o", "r", "e">>

\* the ignore file of directory dir, relative to the root
IgnoreFileOf(dir) == Join(dir, IgnoreFilename)

IsDir(t, p) == p \in t.dirs

NoQuery == [path |-> <<"?">>, is_dir |-> FALSE, asked |-> FALSE]

NoSlots == [im |-> 0, wm |-> 0]

CheckIdle ==
    /\ query = NoQuery
    /\ result = "None"
    /\ slots = NoSlots

NWorkers == 2

Workers == 1..NWorkers

IdleWorker == [dir |-> <<>>, pc |-> "idle", todo |-> {}]

WalkIdle ==
    /\ phase = "check"
    /\ run = "first"
    /\ prebuilt = FALSE
    /\ dir_stack = <<>>
    /\ build_dir = <<>>
    /\ queue = {}
    /\ workers = [w \in Workers |-> IdleWorker]
    /\ emitted = {}
    /\ first_emitted = {}
    /\ base = 0
    /\ early = {}

NThreads == 2

Threads == 1..NThreads

\* the rule sets: a and b are two rule sets of one root, a2 is a clone of a
\* (it shares a's list), c is a rule set of another root
Handles == {"a", "a2", "b", "c"}

RootOf(h) == IF h = "c" THEN "root2" ELSE "root1"

CellOf(h) ==
    IF h = "b" THEN <<"list", 2>>
    ELSE IF h = "c" THEN <<"list", 3>>
    ELSE <<"list", 1>>

\* the list of the temporary rule set that add_patterns makes in thread t
TempCell(t) == <<"temp", t>>

CellIds == {CellOf(h) : h \in Handles} \cup {TempCell(t) : t \in Threads}

IdleThread ==
    [op |-> "none", pc |-> "idle", self |-> <<"list", 1>>, other |-> <<"list", 1>>,
     path |-> <<>>, i |-> 0, im |-> 0, wm |-> 0, snap |-> <<>>, res |-> "None"]

MergeIdle ==
    /\ cells = [c \in CellIds |-> <<>>]
    /\ wlock = [c \in CellIds |-> 0]
    /\ rlock = [c \in CellIds |-> {}]
    /\ committed = [c \in CellIds |-> <<>>]
    /\ threads = [t \in Threads |-> IdleThread]

\* the two orders of merging three rule sets
Orders == {"AB_C", "A_BC"}

NoLists == [A |-> <<>>, B |-> <<>>, C |-> <<>>]

OrderIdle ==
    /\ inputs = NoLists
    /\ worlds = [o \in Orders |-> [lists |-> NoLists, done |-> 0]]

(***************************************************************************)
(* SpecCheck: check as a function of the rule list.  Rule lists are built *)
(* by add_patterns from single lines of the ignore files of a fixed tree,  *)
(* and check is applied to the paths of that tree.                         *)
(***************************************************************************)
MaxRules == 3

D_d == <<"d">>

D_dstar == <<"d", "*">>

QueryTree ==
    [dirs |-> {<<>>, D_d, D_dstar},
     files |-> {<<"x">>, Join(D_d, <<"x">>), Join(D_dstar, <<"x">>)},
     ign |-> <<>>,
     given |-> <<>>,
     ignore_dot_git |-> TRUE]

\* the lines an ignore file may hold, by the directory of the file;
\* <<>> as the file stands for no file: a global pattern
QueryLines ==
    {<<<<>>, <<"x">>>>,
     <<<<IgnoreFileOf(<<>>)>>, <<"x">>>>,
     <<<<IgnoreFileOf(<<>>)>>, <<"!", "x">>>>,
     <<<<IgnoreFileOf(<<>>)>>, <<"d", "/">>>>,
     <<<<IgnoreFileOf(<<>>)>>, <<"d", "/", "*">>>>,
     <<<<IgnoreFileOf(<<>>)>>, <<"*">>>>,
     <<<<IgnoreFileOf(D_d)>>, <<"!", "x">>>>,
     <<<<IgnoreFileOf(D_d)>>, <<"!", "*">>>>,
     <<<<IgnoreFileOf(D_d)>>, <<"/", "*", "*">>>>,
     <<<<IgnoreFileOf(D_d)>>, <<"d">>>>,
     <<<<IgnoreFileOf(D_dstar)>>, <<"x">>>>}

InitCheck ==
    /\ tree = QueryTree
    /\ rules = <<>>
    /\ CheckIdle
    /\ WalkIdle
    /\ MergeIdle
    /\ OrderIdle

\* add_patterns with the patterns of one line
AddPatterns(source, line) ==
    /\ Len(rules) < MaxRules
    /\ rules' = add_patterns(rules, content_to_patterns(source, <<line>>))
    /\ query' = NoQuery
    /\ result' = "None"
    /\ slots' = NoSlots
    /\ UNCHANGED <<tree, walkVars, mergeVars, orderVars>>

\* IgnoreRules::check on a path of the tree
CheckPath(p) ==
    /\ query' = [path |-> p, is_dir |-> IsDir(tree, p), asked |-> TRUE]
    /\ result' = check(rules, p, IsDir(tree, p))
    /\ slots' = Scan(rules, p, IsDir(tree, p))
    /\ UNCHANGED <<tree, rules, walkVars, mergeVars, orderVars>>

NextCheck ==
    \/ \E sl \in QueryLines : AddPatterns(sl[1], sl[2])
    \/ \E p \in QueryTree.dirs \cup QueryTree.files : CheckPath(p)

SpecCheck == InitCheck /\ [][NextCheck]_vars

(***************************************************************************)
(* Claims about check, under SpecCheck.                                    *)
(***************************************************************************)
Asked == query.asked

BothSlots == Asked /\ slots.im # 0 /\ slots.wm # 0

\* the pattern comes from the ignore file that lives in directory dir
FromFileIn(pattern, dir) ==
    pattern.source.kind = "File" /\ Parent(pattern.source.path) = dir

\* the rule list without the patterns of the ignore file of directory dir
RECURSIVE WithoutFileOf(_, _)
WithoutFileOf(L, dir) ==
    IF L = <<>> THEN <<>>
    ELSE IF FromFileIn(Head(L), dir) THEN WithoutFileOf(Tail(L), dir)
    ELSE <<Head(L)>> \o WithoutFileOf(Tail(L), dir)

\* C3: a file matched by an Ignore pattern of an ancestor directory's ignore
\* file and by a Whitelist pattern of the ignore file of a deeper directory
\* that contains the file, the deeper file read later, is answered Whitelist.
C3_DeeperWhitelistOverrides ==
    (/\ BothSlots
     /\ ~query.is_dir
     /\ rules[slots.im].source.kind = "File"
     /\ rules[slots.wm].source.kind = "File"
     /\ StrictlyUnder(dir_path(rules[slots.wm].source),
                      dir_path(rules[slots.im].source))
     /\ StrictlyUnder(query.path, dir_path(rules[slots.wm].source))
     /\ slots.wm > slots.im)
    => result = "Whitelist"

\* C4: with both slots filled and the bare-filename subtree exception not
\* applying, check answers with the effect of the later inserted of the two
\* matched patterns.
C4_LaterInsertedWins ==
    (BothSlots /\ ~SubtreeException(rules[slots.im], rules[slots.wm]))
    => result = (IF slots.wm > slots.im THEN "Whitelist" ELSE "Ignore")

\* C5: a pattern of the ignore file that lives in the queried directory fills
\* neither slot of the check of that directory, and a rule list made of such
\* patterns only answers NoMatch.
C5_OwnFileNeverMatches ==
    Asked =>
        /\ \A k \in {slots.im, slots.wm} \ {0} : ~FromFileIn(rules[k], query.path)
        /\ (\A k \in 1..Len(rules) : FromFileIn(rules[k], query.path))
               => result = "NoMatch"

\* C5's case: a directory was queried, its own ignore file holds a pattern
\* whose glob matches the directory, and the answer is NoMatch.
C5_Witness ==
    /\ Asked
    /\ query.is_dir
    /\ result = "NoMatch"
    /\ \E k \in 1..Len(rules) :
           /\ FromFileIn(rules[k], query.path)
           /\ Matches(rules[k], query.path, TRUE)

\* C6: the patterns of the ignore file of a directory D change the answer for
\* no path outside D.
C6_ForeignFileNoEffect ==
    Asked =>
        \A D \in tree.dirs :
            ~PathStartsWith(query.path, D) =>
                result = check(WithoutFileOf(rules, D), query.path, query.is_dir)

(***************************************************************************)
(* lib.rs: the rule set built from the nested ignore files of a tree, and  *)
(* the walk.  A tree is [dirs, files, ign, given, ignore_dot_git]: ign     *)
(* maps the directories that hold an ignore file to its lines, given is    *)
(* the text of the global patterns.                                        *)
(***************************************************************************)
\* IgnoreRules::from_global_patterns: one pattern for every line of given
RECURSIVE from_global_patterns(_)
from_global_patterns(given) ==
    IF given = <<>> THEN <<>>
    ELSE <<NewPattern(GlobalSource, Head(given))>> \o from_global_patterns(Tail(given))

HasIgnoreFile(t, dir) == dir \in DOMAIN t.ign

\* what the ignore file of dir parses to
FilePatterns(t, dir) == content_to_patterns(<<IgnoreFileOf(dir)>>, t.ign[dir])

\* update_ignore_rules that leaves the list as it is
update_ignore_rules_noop(t, L, dir) == L

\* update_ignore_rules: the patterns of dir's ignore file, if there is one,
\* are added to the rule list
update_ignore_rules(t, L, dir) ==
    IF HasIgnoreFile(t, dir) THEN add_patterns(L, FilePatterns(t, dir)) ELSE L

\* every file of the tree; an ignore file is a file of its directory
AllFiles(t) == t.files \cup {IgnoreFileOf(d) : d \in DOMAIN t.ign}

\* read_dir
Children(t, dir) ==
    {p \in (t.dirs \ {<<>>}) \cup AllFiles(t) : Parent(p) = dir}

\* the order of strings, character by character
RECURSIVE StrLess(_, _)
StrLess(a, b) ==
    IF b = <<>> THEN FALSE
    ELSE IF a = <<>> THEN TRUE
    ELSE IF a[1] = b[1] THEN StrLess(Tail(a), Tail(b))
    ELSE CharCode(a[1]) < CharCode(b[1])

\* sort_by(|a, b| b.cmp(a)): the paths of S, the greatest first
RECURSIVE SortDescending(_)
SortDescending(S) ==
    IF S = {} THEN <<>>
    ELSE LET m == CHOOSE x \in S : \A y \in S \ {x} : StrLess(y, x)
         IN  <<m>> \o SortDescending(S \ {m})

\* the paths of a sequence that check does not answer Ignore for
RECURSIVE NotIgnored(_, _)
NotIgnored(L, paths) ==
    IF paths = <<>> THEN <<>>
    ELSE IF check(L, Head(paths), TRUE) \in {"NoMatch", "Whitelist"}
    THEN <<Head(paths)>> \o NotIgnored(L, Tail(paths))
    ELSE NotIgnored(L, Tail(paths))

\* the patterns of dir's ignore file stand in L, appended after index b
OwnFileLoaded(t, L, b, dir) ==
    \/ ~HasIgnoreFile(t, dir)
    \/ LET want == FilePatterns(t, dir)
       IN  \E i \in b..(Len(L) - Len(want)) : SubSeq(L, i + 1, i + Len(want)) = want

DotGit == <<".", "g", "i", "t">>

Root == <<>>

AllIdle == \A w \in Workers : workers[w].pc = "idle"

(***************************************************************************)
(* The trees walked.                                                       *)
(***************************************************************************)
D_a == <<"a">>

D_b == <<"b">>

D_e == Join(D_d, <<"e">>)

\* `dir/` with `!dir/b` at the root, and an ignore file inside the pruned dir
TreePruned ==
    [dirs |-> {Root, D_d},
     files |-> {Join(D_d, <<"a">>), Join(D_d, <<"b">>)},
     ign |-> (Root :> <<<<"d", "/">>, <<"!", "d", "/", "b">>>>)
             @@ (D_d :> <<<<"!", "b">>>>),
     given |-> <<>>,
     ignore_dot_git |-> TRUE]

\* an ignore at the root, whitelists in the ignore file of a directory below
TreeNested ==
    [dirs |-> {Root, D_d, D_e},
     files |-> {<<"c">>, Join(D_d, <<"c">>), Join(D_e, <<"c">>)},
     ign |-> (Root :> <<<<"c">>>>) @@ (D_d :> <<<<"!", "c", "*">>>>)
             @@ (D_e :> <<<<"!", "c">>>>),
     given |-> <<>>,
     ignore_dot_git |-> TRUE]

\* a directory whose name holds a glob metacharacter, with an ignore file
TreeGlobName ==
    [dirs |-> {Root, D_d, D_dstar, D_e},
     files |-> {Join(D_e, <<"f">>), Join(D_dstar, <<"f">>)},
     ign |-> (D_dstar :> <<<<"f">>, <<"e">>>>) @@ (D_e :> <<<<"y">>>>),
     given |-> <<>>,
     ignore_dot_git |-> TRUE]

\* the same line in the ignore files of two sibling directories
TreeSameLine ==
    [dirs |-> {Root, D_a, D_b},
     files |-> {Join(D_a, <<"x">>), Join(D_b, <<"x">>)},
     ign |-> (D_a :> <<<<"!", "x">>, <<"x">>>>) @@ (D_b :> <<<<"x">>>>),
     given |-> <<>>,
     ignore_dot_git |-> TRUE]

\* a .git directory, a global pattern, a comment, a blank line, trailing spaces
TreeDotGit ==
    [dirs |-> {Root, DotGit, D_d},
     files |-> {Join(DotGit, <<"c">>), Join(D_d, <<"y">>), <<"y">>, <<"x">>},
     ign |-> (Root :> <<<<"#", "x">>, <<" ">>, <<"/", "y", " ", " ">>>>),
     given |-> <<<<"d", "/", "y">>>>,
     ignore_dot_git |-> TRUE]

Trees == {TreePruned, TreeNested, TreeGlobName, TreeSameLine, TreeDotGit}

(***************************************************************************)
(* Spec: a rule set is made for a tree, by from_global_patterns alone or   *)
(* by build_ignore_patterns, and the tree is walked twice.                 *)
(***************************************************************************)
Init ==
    /\ tree \in Trees
    /\ prebuilt \in BOOLEAN
    /\ rules = from_global_patterns(tree.given)
    /\ CheckIdle
    /\ phase = IF prebuilt THEN "build" ELSE "walk"
    /\ run = "first"
    /\ dir_stack = IF prebuilt THEN <<Root>> ELSE <<>>
    /\ build_dir = <<>>
    /\ queue = IF prebuilt THEN {} ELSE {Root}
    /\ workers = [w \in Workers |-> IdleWorker]
    /\ emitted = {}
    /\ first_emitted = {}
    /\ base = 0
    /\ early = {}
    /\ MergeIdle
    /\ OrderIdle

\* build_ignore_patterns, the first half of an iteration: a directory is
\* popped and its ignore file added to the rules
BuildLoad ==
    /\ phase = "build"
    /\ build_dir = <<>>
    /\ dir_stack # <<>>
    /\ rules' = update_ignore_rules(tree, rules, dir_stack[Len(dir_stack)])
    /\ build_dir' = <<dir_stack[Len(dir_stack)]>>
    /\ dir_stack' = DropLast(dir_stack)
    /\ UNCHANGED <<tree, checkVars, mergeVars, orderVars, phase, run, prebuilt, queue, workers,
                   emitted, first_emitted, base, early>>

\* build_ignore_patterns, the second half: the subdirectories, sorted, that
\* check does not ignore are pushed
BuildSubdirs ==
    /\ phase = "build"
    /\ build_dir # <<>>
    /\ LET dir == build_dir[1]
           subdirs == {p \in Children(tree, dir) : IsDir(tree, p)}
       IN  /\ dir_stack' = dir_stack \o NotIgnored(rules, SortDescending(subdirs))
           /\ early' = early \cup
                  (IF OwnFileLoaded(tree, rules, base, dir) THEN {} ELSE subdirs)
    /\ build_dir' = <<>>
    /\ UNCHANGED <<tree, rules, checkVars, mergeVars, orderVars, phase, run, prebuilt, queue, workers,
                   emitted, first_emitted, base>>

\* build_ignore_patterns returns and the walk begins with its rule set
BuildReturn ==
    /\ phase = "build"
    /\ build_dir = <<>>
    /\ dir_stack = <<>>
    /\ phase' = "walk"
    /\ queue' = {Root}
    /\ base' = Len(rules)
    /\ UNCHANGED <<tree, rules, checkVars, mergeVars, orderVars, run, prebuilt, dir_stack, build_dir,
                   workers, emitted, first_emitted, early>>

\* a worker takes a directory from the queue
WorkerPop(w) ==
    /\ phase = "walk"
    /\ workers[w].pc = "idle"
    /\ \E d \in queue :
           /\ queue' = queue \ {d}
           /\ workers' = [workers EXCEPT ![w] = [dir |-> d, pc |-> "load", todo |-> {}]]
    /\ UNCHANGED <<tree, rules, checkVars, mergeVars, orderVars, phase, run, prebuilt, dir_stack,
                   build_dir, emitted, first_emitted, base, early>>

\* the worker adds the ignore file of its directory and lists the children
WorkerLoad(w) ==
    /\ phase = "walk"
    /\ workers[w].pc = "load"
    /\ rules' = update_ignore_rules(tree, rules, workers[w].dir)
    /\ workers' = [workers EXCEPT ![w] =
           IF Children(tree, workers[w].dir) = {} THEN IdleWorker
           ELSE [dir |-> workers[w].dir, pc |-> "children",
                 todo |-> Children(tree, workers[w].dir)]]
    /\ UNCHANGED <<tree, checkVars, mergeVars, orderVars, phase, run, prebuilt, dir_stack, build_dir,
                   queue, emitted, first_emitted, base, early>>

\* the worker tests one child: .git is skipped, an ignored child is skipped,
\* a file is sent, a directory is queued
WorkerChild(w, c) ==
    /\ phase = "walk"
    /\ workers[w].pc = "children"
    /\ c \in workers[w].todo
    /\ LET dir == workers[w].dir
           dot_git == tree.ignore_dot_git /\ FileName(c) = DotGit
           kept == ~dot_git /\ check(rules, c, IsDir(tree, c)) # "Ignore"
       IN  /\ queue' = IF kept /\ IsDir(tree, c) THEN queue \cup {c} ELSE queue
           /\ emitted' = IF kept /\ ~IsDir(tree, c) THEN emitted \cup {c} ELSE emitted
           /\ early' = IF ~dot_git /\ ~OwnFileLoaded(tree, rules, base, dir)
                       THEN early \cup {c} ELSE early
           /\ workers' = [workers EXCEPT ![w] =
                  IF workers[w].todo = {c} THEN IdleWorker
                  ELSE [dir |-> dir, pc |-> "children", todo |-> workers[w].todo \ {c}]]
    /\ UNCHANGED <<tree, rules, checkVars, mergeVars, orderVars, phase, run, prebuilt, dir_stack,
                   build_dir, first_emitted, base>>

\* the queue is drained and every worker idle: the channel is closed
WalkFinished == phase = "walk" /\ queue = {} /\ AllIdle

\* the second walk begins with the rule set the first one left
SecondWalkReuses ==
    /\ WalkFinished
    /\ run = "first"
    /\ run' = "second"
    /\ first_emitted' = emitted
    /\ emitted' = {}
    /\ queue' = {Root}
    /\ base' = Len(rules)
    /\ UNCHANGED <<tree, rules, checkVars, mergeVars, orderVars, phase, prebuilt, dir_stack, build_dir,
                   workers, early>>

\* the second walk begins with a rule set made anew, as the first one was
SecondWalkFresh ==
    /\ WalkFinished
    /\ run = "first"
    /\ run' = "second"
    /\ first_emitted' = emitted
    /\ emitted' = {}
    /\ rules' = from_global_patterns(tree.given)
    /\ phase' = IF prebuilt THEN "build" ELSE "walk"
    /\ dir_stack' = IF prebuilt THEN <<Root>> ELSE <<>>
    /\ queue' = IF prebuilt THEN {} ELSE {Root}
    /\ base' = 0
    /\ UNCHANGED <<tree, checkVars, mergeVars, orderVars, prebuilt, build_dir, workers, early>>

\* the second walk is over
SecondWalkEnds ==
    /\ WalkFinished
    /\ run = "second"
    /\ phase' = "done"
    /\ UNCHANGED <<tree, rules, checkVars, mergeVars, orderVars, run, prebuilt, dir_stack, build_dir,
                   queue, workers, emitted, first_emitted, base, early>>

Next ==
    \/ BuildLoad
    \/ BuildSubdirs
    \/ BuildReturn
    \/ \E w \in Workers : WorkerPop(w)
    \/ \E w \in Workers : WorkerLoad(w)
    \/ \E w \in Workers : \E c \in workers[w].todo : WorkerChild(w, c)
    \/ SecondWalkReuses
    \/ SecondWalkFresh
    \/ SecondWalkEnds

Spec == Init /\ [][Next]_vars

(***************************************************************************)
(* Claims about the walk, under Spec.                                      *)
(***************************************************************************)
WalkOver == WalkFinished \/ phase = "done"

\* C1: when a walk has finished, every path it sent lies under the root and
\* check, on the rule set as the walk left it, does not answer Ignore for it.
C1_EmittedNotIgnored ==
    WalkOver =>
        \A P \in emitted :
            /\ P \in AllFiles(tree)
            /\ check(rules, P, IsDir(tree, P)) # "Ignore"

\* some pattern of the rule list comes from an ignore file inside directory D
ReadInside(L, D) ==
    \E k \in 1..Len(L) :
        /\ L[k].source.kind = "File"
        /\ PathStartsWith(Parent(L[k].source.path), D)

\* C2: for every directory D under the root that check answers Ignore for,
\* no path inside D has been sent and no ignore file inside D has been read
\* into the rule list.
C2_PrunedStaysPruned ==
    \A D \in tree.dirs \ {Root} :
        check(rules, D, TRUE) = "Ignore" =>
            /\ \A P \in emitted : ~StrictlyUnder(P, D)
            /\ ~ReadInside(rules, D)

\* C9: no child of a directory is given to check before the patterns of the
\* directory's own ignore file are appended to the rule list.
C9_OwnFileBeforeChildren == early = {}

\* C9's case: a directory with an ignore file is being worked on, some of its
\* children have been checked and others not yet.
C9_Witness ==
    \E w \in Workers :
        /\ workers[w].pc = "children"
        /\ HasIgnoreFile(tree, workers[w].dir)
        /\ FilePatterns(tree, workers[w].dir) # <<>>
        /\ workers[w].todo # Children(tree, workers[w].dir)

\* C10: the second walk of an unchanged tree sends the same set of paths as
\* the first.
C10_SecondWalkSame == phase = "done" => emitted = first_emitted

(***************************************************************************)
(* SpecMerge: threads call merge_with, add_patterns, update_ignore_rules   *)
(* and check on rule sets that share pattern lists; every lock operation   *)
(* and every pattern moved or scanned is a step.                           *)
(***************************************************************************)
MaxPatterns == 2

IsPrefix(a, b) == Len(a) <= Len(b) /\ SubSeq(b, 1, Len(a)) = a

RECURSIVE TotalLen(_, _)
TotalLen(f, S) ==
    IF S = {} THEN 0
    ELSE LET c == CHOOSE x \in S : TRUE IN Len(f[c]) + TotalLen(f, S \ {c})

\* the value of wlock for a poisoned lock: a write guard was dropped by a
\* panicking thread
Poisoned == -1

\* RwLock::write is granted: no writer and no reader holds the lock
CanWrite(c) == wlock[c] = 0 /\ rlock[c] = {}

\* RwLock::read granted whatever a writer is doing
CanReadAlways(c) == TRUE

\* RwLock::read is granted: no writer holds the lock
CanRead(c) == wlock[c] = 0

\* Vec::push with the pattern put first
DrainPushFront(list, pattern) == <<pattern>> \o list

\* Vec::push of a drained pattern
DrainPush(list, pattern) == Append(list, pattern)

InitMerge ==
    /\ tree = TreePruned
    /\ rules = <<>>
    /\ CheckIdle
    /\ WalkIdle
    /\ MergeIdle
    /\ OrderIdle

Enter(t, rec) == threads' = [threads EXCEPT ![t] = rec]

\* merge_with without the comparison of the roots
StartMergeUnchecked(t, a, b) ==
    /\ threads[t].pc = "idle"
    /\ Enter(t, [IdleThread EXCEPT !.op = "merge", !.pc = "lock_self",
                    !.self = CellOf(a), !.other = CellOf(b)])
    /\ UNCHANGED <<tree, rules, checkVars, walkVars, orderVars, cells, wlock, rlock, committed>>

\* merge_with is called; the roots are compared before any lock is taken
StartMerge(t, a, b) ==
    /\ threads[t].pc = "idle"
    /\ Enter(t, [IdleThread EXCEPT !.op = "merge",
                    !.pc = IF RootOf(a) = RootOf(b) THEN "lock_self" ELSE "panicked",
                    !.self = CellOf(a), !.other = CellOf(b)])
    /\ UNCHANGED <<tree, rules, checkVars, walkVars, orderVars, cells, wlock, rlock, committed>>

\* add_patterns is called: a temporary rule set of the same root holds the
\* vector, and merge_with is entered with it
StartAddPatterns(t, a, patterns) ==
    /\ threads[t].pc = "idle"
    /\ TotalLen(cells, CellIds) + Len(patterns) <= MaxPatterns
    /\ cells' = [cells EXCEPT ![TempCell(t)] = patterns]
    /\ committed' = [committed EXCEPT ![TempCell(t)] = patterns]
    /\ Enter(t, [IdleThread EXCEPT !.op = "add", !.pc = "lock_self",
                    !.self = CellOf(a), !.other = TempCell(t)])
    /\ UNCHANGED <<tree, rules, checkVars, walkVars, orderVars, wlock, rlock>>

\* update_ignore_rules is called for a directory that holds an ignore file
StartUpdateIgnoreRules(t, a, dir) ==
    /\ HasIgnoreFile(tree, dir)
    /\ StartAddPatterns(t, a, FilePatterns(tree, dir))

\* self.patterns.write()
LockSelf(t) ==
    /\ threads[t].pc = "lock_self"
    /\ CanWrite(threads[t].self)
    /\ wlock' = [wlock EXCEPT ![threads[t].self] = t]
    /\ Enter(t, [threads[t] EXCEPT !.pc = "lock_other"])
    /\ UNCHANGED <<tree, rules, checkVars, walkVars, orderVars, cells, rlock, committed>>

\* other.patterns.write()
LockOther(t) ==
    /\ threads[t].pc = "lock_other"
    /\ CanWrite(threads[t].other)
    /\ wlock' = [wlock EXCEPT ![threads[t].other] = t]
    /\ Enter(t, [threads[t] EXCEPT !.pc = "drain", !.snap = cells[threads[t].self]])
    /\ UNCHANGED <<tree, rules, checkVars, walkVars, orderVars, cells, rlock, committed>>

\* other.patterns.write() when other's list is self's list, which this
\* thread holds: RwLock::write may block forever (no step) or panic; the
\* panic drops the guard of self, which poisons the lock
SelfLockPanics(t) ==
    /\ threads[t].pc = "lock_other"
    /\ wlock[threads[t].other] = t
    /\ wlock' = [wlock EXCEPT ![threads[t].self] = Poisoned]
    /\ Enter(t, [threads[t] EXCEPT !.pc = "lock_panicked"])
    /\ UNCHANGED <<tree, rules, checkVars, walkVars, orderVars, cells, rlock, committed>>

\* the list this thread is about to lock
LockTarget(t) ==
    IF threads[t].pc = "lock_other" THEN threads[t].other ELSE threads[t].self

\* read() or write() on a poisoned lock returns Err and unwrap panics; a
\* guard of self this thread holds is dropped by the panic, which poisons
\* that lock too
PoisonPanics(t) ==
    /\ threads[t].pc \in {"lock_self", "lock_other", "read_lock"}
    /\ wlock[LockTarget(t)] = Poisoned
    /\ wlock' = IF threads[t].pc = "lock_other"
                THEN [wlock EXCEPT ![threads[t].self] = Poisoned]
                ELSE wlock
    /\ Enter(t, [threads[t] EXCEPT !.pc = "lock_panicked"])
    /\ UNCHANGED <<tree, rules, checkVars, walkVars, orderVars, cells, rlock, committed>>

\* drain(..).for_each(push): one pattern moves from other to self
DrainOne(t) ==
    /\ threads[t].pc = "drain"
    /\ cells[threads[t].other] # <<>>
    /\ cells' = [cells EXCEPT
           ![threads[t].self] = DrainPush(cells[threads[t].self],
                                          Head(cells[threads[t].other])),
           ![threads[t].other] = Tail(cells[threads[t].other])]
    /\ UNCHANGED <<tree, rules, checkVars, walkVars, orderVars, wlock, rlock, committed, threads>>

\* the drain is over
DrainEnds(t) ==
    /\ threads[t].pc = "drain"
    /\ cells[threads[t].other] = <<>>
    /\ committed' = [committed EXCEPT
           ![threads[t].self] = cells[threads[t].self],
           ![threads[t].other] = <<>>]
    /\ Enter(t, [threads[t] EXCEPT !.pc = "unlock_other"])
    /\ UNCHANGED <<tree, rules, checkVars, walkVars, orderVars, cells, wlock, rlock>>

\* the guard of other's list is dropped
UnlockOther(t) ==
    /\ threads[t].pc = "unlock_other"
    /\ wlock' = [wlock EXCEPT ![threads[t].other] = 0]
    /\ Enter(t, [threads[t] EXCEPT !.pc = "unlock_self"])
    /\ UNCHANGED <<tree, rules, checkVars, walkVars, orderVars, cells, rlock, committed>>

\* the guard of self's list is dropped and the call returns Ok
UnlockSelf(t) ==
    /\ threads[t].pc = "unlock_self"
    /\ wlock' = [wlock EXCEPT ![threads[t].self] = 0]
    /\ Enter(t, IdleThread)
    /\ UNCHANGED <<tree, rules, checkVars, walkVars, orderVars, cells, rlock, committed>>

\* check is called
StartCheck(t, a, p) ==
    /\ threads[t].pc = "idle"
    /\ Enter(t, [IdleThread EXCEPT !.op = "check", !.pc = "read_lock",
                    !.self = CellOf(a), !.path = p])
    /\ UNCHANGED <<tree, rules, checkVars, walkVars, orderVars, cells, wlock, rlock, committed>>

\* self.patterns.read(): the scan begins at the end of the list
ReadLock(t) ==
    /\ threads[t].pc = "read_lock"
    /\ CanRead(threads[t].self)
    /\ rlock' = [rlock EXCEPT ![threads[t].self] = @ \cup {t}]
    /\ Enter(t, [threads[t] EXCEPT !.pc = "scan",
                    !.snap = cells[threads[t].self],
                    !.i = Len(cells[threads[t].self])])
    /\ UNCHANGED <<tree, rules, checkVars, walkVars, orderVars, cells, wlock, committed>>

\* one turn of the scan loop, on the list as it is now
ScanStep(t) ==
    /\ threads[t].pc = "scan"
    /\ LET th == threads[t]
           L == cells[th.self]
           s == IF th.i <= Len(L)
                THEN ScanOne(L[th.i], th.i, th.path, IsDir(tree, th.path), th.im, th.wm)
                ELSE [im |-> th.im, wm |-> th.wm]
       IN  IF ScanEnds(th.i, th.im, th.wm)
           THEN Enter(t, [th EXCEPT !.pc = "arbitrate"])
           ELSE Enter(t, [th EXCEPT !.i = th.i - 1, !.im = s.im, !.wm = s.wm])
    /\ UNCHANGED <<tree, rules, checkVars, walkVars, orderVars, cells, wlock, rlock, committed>>

\* the two slots are arbitrated and the read guard is dropped
ArbitrateStep(t) ==
    /\ threads[t].pc = "arbitrate"
    /\ LET th == threads[t]
           L == cells[th.self]
       IN  Enter(t, [th EXCEPT !.pc = "checked",
                       !.res = IF th.im <= Len(L) /\ th.wm <= Len(L)
                               THEN Arbitrate(L, th.im, th.wm) ELSE "None"])
    /\ rlock' = [rlock EXCEPT ![threads[t].self] = @ \ {t}]
    /\ UNCHANGED <<tree, rules, checkVars, walkVars, orderVars, cells, wlock, committed>>

\* check returns
CheckReturns(t) ==
    /\ threads[t].pc = "checked"
    /\ Enter(t, IdleThread)
    /\ UNCHANGED <<tree, rules, checkVars, walkVars, orderVars, cells, wlock, rlock, committed>>

\* the vectors given to add_patterns
AddVectors == {<<NewPattern(GlobalSource, <<"b">>)>>}

CheckPaths == {Join(D_d, <<"b">>)}

NextMerge ==
    \/ \E t \in Threads, a, b \in Handles : StartMerge(t, a, b)
    \/ \E t \in Threads, a \in Handles, v \in AddVectors : StartAddPatterns(t, a, v)
    \/ \E t \in Threads, a \in Handles, d \in tree.dirs : StartUpdateIgnoreRules(t, a, d)
    \/ \E t \in Threads : LockSelf(t)
    \/ \E t \in Threads : LockOther(t)
    \/ \E t \in Threads : SelfLockPanics(t)
    \/ \E t \in Threads : PoisonPanics(t)
    \/ \E t \in Threads : DrainOne(t)
    \/ \E t \in Threads : DrainEnds(t)
    \/ \E t \in Threads : UnlockOther(t)
    \/ \E t \in Threads : UnlockSelf(t)
    \/ \E t \in Threads, a \in Handles, p \in CheckPaths : StartCheck(t, a, p)
    \/ \E t \in Threads : ReadLock(t)
    \/ \E t \in Threads : ScanStep(t)
    \/ \E t \in Threads : ArbitrateStep(t)
    \/ \E t \in Threads : CheckReturns(t)

SpecMerge == InitMerge /\ [][NextMerge]_vars

\* Every thread that can take a step of its call takes it; a lock that is
\* free again and again is obtained.  The panic of write() on a lock the
\* thread holds itself is not fair: the thread may as well block.
FairThread(t) ==
    /\ SF_vars(LockSelf(t))
    /\ SF_vars(LockOther(t))
    /\ SF_vars(ReadLock(t))
    /\ WF_vars(PoisonPanics(t))
    /\ WF_vars(DrainOne(t))
    /\ WF_vars(DrainEnds(t))
    /\ WF_vars(UnlockOther(t))
    /\ WF_vars(UnlockSelf(t))
    /\ WF_vars(ScanStep(t))
    /\ WF_vars(ArbitrateStep(t))
    /\ WF_vars(CheckReturns(t))

SpecMergeFair == SpecMerge /\ \A t \in Threads : FairThread(t)

(***************************************************************************)
(* The claims about the shared lists, under SpecMerge.                     *)
(***************************************************************************)
ListOf(h) == cells[CellOf(h)]

\* a merge_with in its drain takes the patterns of cell c away as `other`
DrainedAsOther(c) ==
    \E t \in Threads : threads[t].pc = "drain" /\ threads[t].other = c

\* C7: as stated: no step of merge_with, add_patterns or update_ignore_rules
\* removes or reorders a pattern of the list of any rule set; every list is a
\* prefix of what it is after the step.
C7_NoListEverShrinks ==
    [][\A h \in Handles : IsPrefix(ListOf(h), ListOf(h)')]_vars

\* C7: amended: every step leaves every list a prefix of what it becomes,
\* except the list that a merge_with in progress drains as `other`; and a
\* drain step keeps the patterns of self followed by those of other, in order.
C7_OnlyDrainedListShrinks ==
    [][/\ \A c \in CellIds : IsPrefix(cells[c], cells'[c]) \/ DrainedAsOther(c)
       /\ \A t \in Threads :
             threads[t].pc = "drain" =>
                 cells'[threads[t].self] \o cells'[threads[t].other]
                     = cells[threads[t].self] \o cells[threads[t].other]]_vars

\* a merge_with between two rule sets has drained: self, not empty before, has
\* grown by other's patterns and other is left empty
C7_Witness ==
    \E t \in Threads :
        /\ threads[t].op = "merge"
        /\ threads[t].pc = "unlock_other"
        /\ threads[t].snap # <<>>
        /\ Len(cells[threads[t].self]) > Len(threads[t].snap)
        /\ IsPrefix(threads[t].snap, cells[threads[t].self])
        /\ cells[threads[t].other] = <<>>

\* C8: a check that holds the read guard scans the list as one whole list: the
\* list it reads is the one it locked and is a list some finished mutation (or
\* construction) left, never one with part of a mutation's patterns; and the
\* result it returns is the result of check on that list.
C8_ReadersSeeWholeMutations ==
    \A t \in Threads :
        /\ threads[t].pc \in {"scan", "arbitrate"} =>
               /\ cells[threads[t].self] = threads[t].snap
               /\ cells[threads[t].self] = committed[threads[t].self]
        /\ threads[t].pc = "checked" =>
               threads[t].res =
                   check(threads[t].snap, threads[t].path, IsDir(tree, threads[t].path))

\* a check is part way through a list of two patterns while another thread
\* waits with patterns to append to the same list
C8_Witness ==
    \E t, u \in Threads :
        /\ threads[t].pc = "scan"
        /\ Len(threads[t].snap) = 2
        /\ threads[t].i = 1
        /\ threads[u].pc = "lock_self"
        /\ threads[u].self = threads[t].self
        /\ cells[threads[u].other] # <<>>

(***************************************************************************)
(* SpecLines: the lines of an ignore file and of the global patterns.  A   *)
(* tree holds an ignore file at the root and a text of global patterns,    *)
(* both drawn from a few lines; the rule set is made from them and check   *)
(* is applied to the files of the tree.                                    *)
(***************************************************************************)
MaxLines == 2

L_x == <<"x">>

L_x_spaces == <<"x", " ", " ">>

L_x_escaped == <<"x", "\\", " ">>

L_empty == <<>>

L_space == <<" ">>

L_comment == <<"#", "x">>

Lines == {L_x, L_x_spaces, L_x_escaped, L_empty, L_space, L_comment}

\* the texts of at most MaxLines lines, none of them empty
Contents == UNION {[1..n -> Lines] : n \in 1..MaxLines}

F_x == <<"x">>

F_x_space == <<"x", " ">>

F_x_backslash == <<"x", "\\", " ">>

F_comment == <<"#", "x">>

LineTree(content, given) ==
    [dirs |-> {Root},
     files |-> {F_x, F_x_space, F_x_backslash, F_comment},
     ign |-> (Root :> content),
     given |-> given,
     ignore_dot_git |-> TRUE]

InitLines ==
    /\ \E content \in Contents, line \in Lines : tree = LineTree(content, <<line>>)
    /\ rules = <<>>
    /\ CheckIdle
    /\ WalkIdle
    /\ MergeIdle
    /\ OrderIdle

\* the rule set is made by from_global_patterns
FromGlobalPatterns ==
    /\ rules = <<>>
    /\ rules' = from_global_patterns(tree.given)
    /\ query' = NoQuery
    /\ result' = "None"
    /\ slots' = NoSlots
    /\ UNCHANGED <<tree, walkVars, mergeVars, orderVars>>

\* update_ignore_rules on the root directory
UpdateIgnoreRules ==
    /\ \A k \in 1..Len(rules) : rules[k].source.kind # "File"
    /\ rules' = update_ignore_rules(tree, rules, Root)
    /\ query' = NoQuery
    /\ result' = "None"
    /\ slots' = NoSlots
    /\ UNCHANGED <<tree, walkVars, mergeVars, orderVars>>

NextLines ==
    \/ FromGlobalPatterns
    \/ UpdateIgnoreRules
    \/ \E p \in tree.files : CheckPath(p)

SpecLines == InitLines /\ [][NextLines]_vars

\* the one rule of the list comes from the line given
OnlyRuleFrom(line) ==
    /\ Len(rules) = 1
    /\ \/ rules[1].source.kind = "File" /\ tree.ign[Root] = <<line>>
       \/ rules[1].source.kind = "Global" /\ tree.given = <<line>>

\* C11: the line `x\ ` (x, backslash, space) gives a pattern that matches the
\* file named `x ` (x, space) and not the file `x`; the line `x` followed by
\* two spaces gives a pattern that matches the file `x` and not `x `.
C11_TrailingSpace ==
    /\ (Asked /\ OnlyRuleFrom(L_x_escaped)) =>
           /\ query.path = F_x_space => result = "Ignore"
           /\ query.path = F_x => result = "NoMatch"
    /\ (Asked /\ OnlyRuleFrom(L_x_spaces)) =>
           /\ query.path = F_x => result = "Ignore"
           /\ query.path = F_x_space => result = "NoMatch"

\* C12: no pattern of the rule list comes from a blank line or from a line
\* whose first character is `#`.
C12_NoPatternFromCommentOrBlank ==
    \A k \in 1..Len(rules) :
        /\ ~IsBlank(rules[k].original)
        /\ ~StartsWith(rules[k].original, <<"#">>)

(***************************************************************************)
(* SpecOrder: three rule sets A, B and C of one root are merged in two     *)
(* orders, each merge_with call taken whole (no other thread runs).        *)
(***************************************************************************)
MaxMerged == 2

\* a drain that takes other's patterns from the end
RECURSIVE DrainAllFromEnd(_, _)
DrainAllFromEnd(self_patterns, other_patterns) ==
    IF other_patterns = <<>> THEN self_patterns
    ELSE DrainAllFromEnd(DrainPush(self_patterns, other_patterns[Len(other_patterns)]),
                         SubSeq(other_patterns, 1, Len(other_patterns) - 1))

\* other_patterns.drain(..).for_each(|p| patterns.push(p)): self's list after
\* the drain
RECURSIVE DrainAll(_, _)
DrainAll(self_patterns, other_patterns) ==
    IF other_patterns = <<>> THEN self_patterns
    ELSE DrainAll(DrainPush(self_patterns, Head(other_patterns)), Tail(other_patterns))

\* x.merge_with(y) on the lists of three rule sets
MergeCall(lists, x, y) ==
    [lists EXCEPT ![x] = DrainAll(lists[x], lists[y]), ![y] = <<>>]

OrderPatterns ==
    {NewPattern(GlobalSource, <<"x">>), NewPattern(GlobalSource, <<"!", "x">>)}

OrderLists == UNION {[1..n -> OrderPatterns] : n \in 0..MaxMerged}

\* the merge_with calls of each order, as <<self, other>>
Plan(o) ==
    IF o = "AB_C" THEN <<<<"A", "B">>, <<"A", "C">>>>
    ELSE <<<<"B", "C">>, <<"A", "B">>>>

InitOrder ==
    /\ tree = TreePruned
    /\ rules = <<>>
    /\ CheckIdle
    /\ WalkIdle
    /\ MergeIdle
    /\ inputs \in [A : OrderLists, B : OrderLists, C : OrderLists]
    /\ worlds = [o \in Orders |-> [lists |-> inputs, done |-> 0]]

\* the next merge_with call of order o
MergeNext(o) ==
    /\ worlds[o].done < Len(Plan(o))
    /\ worlds' = [worlds EXCEPT ![o] =
           [lists |-> MergeCall(worlds[o].lists,
                                Plan(o)[worlds[o].done + 1][1],
                                Plan(o)[worlds[o].done + 1][2]),
            done |-> worlds[o].done + 1]]
    /\ UNCHANGED <<tree, rules, checkVars, walkVars, mergeVars, inputs>>

NextOrder == \E o \in Orders : MergeNext(o)

SpecOrder == InitOrder /\ [][NextOrder]_vars

BothOrdersDone == \A o \in Orders : worlds[o].done = Len(Plan(o))

\* C13: merging B into A and then C into A leaves A with the same list as
\* merging C into B and then B into A: A's patterns, then B's, then C's, each
\* in their order.
C13_MergeAssociative ==
    BothOrdersDone =>
        /\ worlds["AB_C"].lists.A = worlds["A_BC"].lists.A
        /\ worlds["AB_C"].lists.A = inputs.A \o inputs.B \o inputs.C

\* both orders are done on three lists that are not empty, B and C of two
\* different patterns each
C13_Witness ==
    /\ BothOrdersDone
    /\ inputs.A # <<>>
    /\ Len(inputs.B) = 2 /\ inputs.B[1] # inputs.B[2]
    /\ Len(inputs.C) = 2 /\ inputs.C[1] # inputs.C[2]
    /\ Len(worlds["A_BC"].lists.A) = Len(inputs.A) + 4

(***************************************************************************)
(* Further claims about check, under SpecCheck.                            *)
(***************************************************************************)
\* C14: a pattern of kind Directory fills no slot of the check of a path that
\* is no directory, and a rule list of Directory patterns only answers NoMatch
\* for such a path.
C14_DirectoryPatternSkipsFiles ==
    (Asked /\ ~query.is_dir) =>
        /\ \A k \in {slots.im, slots.wm} \ {0} : rules[k].path_kind # "Directory"
        /\ (\A k \in 1..Len(rules) : rules[k].path_kind = "Directory")
               => result = "NoMatch"

\* a file was queried on a list of Directory patterns, one of which would
\* match the path were it a directory
C14_Witness ==
    /\ Asked
    /\ ~query.is_dir
    /\ rules # <<>>
    /\ \A k \in 1..Len(rules) : rules[k].path_kind = "Directory"
    /\ \E k \in 1..Len(rules) : Matches(rules[k], query.path, TRUE)
    /\ result = "NoMatch"

\* the glob of the pattern matches no path of the tree, a directory taken
\* with and without its trailing slash
MatchesNoPath(pattern) ==
    \A q \in tree.dirs \cup tree.files :
        /\ ~glob_match(pattern.glob, q)
        /\ IsDir(tree, q) => ~glob_match(pattern.glob, PathStr(q, TRUE))

\* C15: when the pattern added last matches no path, check answers as it does
\* on the list without that pattern.
C15_UnmatchedPatternNoEffect ==
    (Asked /\ rules # <<>> /\ MatchesNoPath(rules[Len(rules)])) =>
        result = check(SubSeq(rules, 1, Len(rules) - 1), query.path, query.is_dir)

\* a pattern that matches no path was added to a list whose check of the
\* queried path fills both slots
C15_Witness ==
    /\ BothSlots
    /\ Len(rules) = 3
    /\ MatchesNoPath(rules[3])

\* the Whitelist pattern is a bare file name from a directory strictly inside
\* the source directory of the Ignore pattern
BareNameFromDeeper(im_pattern, wm_pattern) ==
    /\ StrictlyUnder(dir_path(wm_pattern.source), dir_path(im_pattern.source))
    /\ \A c \in {"/", "*", "?", "["} : ~Contains(wm_pattern.original, c)

StarOf(pattern, path) ==
    /\ EndsWith(pattern.glob, <<"/", "*">>)
    /\ SubSeq(pattern.glob, 1, Len(pattern.glob) - 2) = path

\* C18: a pattern whose glob is dir/* fills no slot of the check of the
\* directory dir; as the only rule it answers NoMatch for dir and its effect
\* for the children of dir.
C18_StarDoesNotMatchDirItself ==
    Asked =>
        /\ query.is_dir =>
               \A k \in {slots.im, slots.wm} \ {0} : ~StarOf(rules[k], query.path)
        /\ (Len(rules) = 1 /\ rules[1].effect = "Ignore") =>
               /\ (query.is_dir /\ StarOf(rules[1], query.path)) => result = "NoMatch"
               /\ (query.path # <<>> /\ StarOf(rules[1], Parent(query.path)))
                      => result = "Ignore"

\* the only rule is dir/* and dir itself was queried
C18_Witness ==
    /\ Asked
    /\ query.is_dir
    /\ Len(rules) = 1
    /\ StarOf(rules[1], query.path)
    /\ result = "NoMatch"

\* the only rule is dir/* and a child of dir was queried
C18_ChildIgnored ==
    /\ Asked
    /\ Len(rules) = 1
    /\ query.path # <<>>
    /\ StarOf(rules[1], Parent(query.path))
    /\ result = "Ignore"

(***************************************************************************)
(* Claims about merge_with, under SpecMerge and SpecMergeFair.             *)
(***************************************************************************)
\* the root of the rule sets that hold list c
CellRoot(c) == IF c = CellOf("c") THEN RootOf("c") ELSE RootOf("a")

RootsDiffer(th) == th.op = "merge" /\ CellRoot(th.self) # CellRoot(th.other)

\* C16: a merge_with call on rule sets of different roots fails at once: the
\* step that enters the call ends it in a panic, leaves every list as it is,
\* takes no lock, and the thread does nothing after it.
C16_RootMismatchFailsFast ==
    [][\A t \in Threads :
          RootsDiffer(threads'[t]) =>
              /\ threads'[t].pc = "panicked"
              /\ cells' = cells \/ threads'[t] = threads[t]
              /\ wlock'[threads'[t].self] # t
              /\ wlock'[threads'[t].other] # t]_vars

\* a merge_with of rule sets of different roots has panicked; both lists hold
\* patterns
C16_Witness ==
    \E t \in Threads :
        /\ threads[t].pc = "panicked"
        /\ RootsDiffer(threads[t])
        /\ cells[threads[t].self] # <<>>
        /\ cells[threads[t].other] # <<>>

\* thread t is inside the locking part of a merge_with call
InMerge(t) ==
    threads[t].pc \in {"lock_self", "lock_other", "drain", "unlock_other", "unlock_self"}

\* C19: every merge_with call between rule sets of one root gets out of its
\* locking part: it returns or panics, it does not block forever.
C19_MergeNeverBlocks ==
    \A t \in Threads : InMerge(t) ~> ~InMerge(t)

=============================================================================
